---------------------------- MODULE Spec2Model ----------------------------
(***************************************************************************)
(* A model of src/app.py: the DTC e-mail pipeline.                         *)
(*                                                                         *)
(*   - text is a sequence of one-character strings, so that the regular    *)
(*     expression of extract_dtc_info and str.strip() are computed on      *)
(*     characters;                                                         *)
(*   - the store is the table dtc_logs of dtc_logs.db: whether it exists,  *)
(*     its columns and its rows;                                           *)
(*   - one run of the script (Streamlit re-runs app.py from the top on     *)
(*     every interaction) is a walk of pc from "idle" back to "idle".      *)
(***************************************************************************)
EXTENDS Integers, Sequences, FiniteSets, TLC

(***************************************************************************)
(* Bounds of the model.                                                    *)
(***************************************************************************)
\* The longest body of SpecExtract, in fragments.
MaxFrags == 5
\* SpecSchema: the most rows a store holds before init_db is called.
MaxLegacyRows == 2
\* SpecSchema: the most init_db calls in a row.
MaxInitCalls == 2
\* Spec: the most messages a search returns.
MaxMsgs == 2
\* Spec: the most rows the store holds (a search returns no more messages
\* than the store has room for).
MaxRows == 2
\* Spec: the last tick of the clock, and the ticks that make a day.
MaxClock == 2
TicksPerDay == 2

(***************************************************************************)
(* Text.                                                                   *)
(***************************************************************************)
\* The literals of the pattern r'Device: (.*?)\nEvent: (.*?)\nSpeed:'.
DeviceLit == <<"D", "e", "v", "i", "c", "e", ":", " ">>
EventLit == <<"\n", "E", "v", "e", "n", "t", ":", " ">>
SpeedLit == <<"\n", "S", "p", "e", "e", "d", ":">>
\* The literal of the pattern r'Time: (.*?)\n'.
TimeLit == <<"T", "i", "m", "e", ":", " ">>

\* The characters str.strip() removes.
IsSpace(c) == c \in {" ", "\n", "\t", "\r"}

\* lit occurs in t at position i.
LitAt(t, i, lit) ==
    /\ i >= 1
    /\ i + Len(lit) - 1 <= Len(t)
    /\ SubSeq(t, i, i + Len(lit) - 1) = lit

\* The positions at which lit occurs in t.
Occurrences(t, lit) == {i \in 1..Len(t) : LitAt(t, i, lit)}

Min(S) == CHOOSE x \in S : \A y \in S : x <= y
Max(S) == CHOOSE x \in S : \A y \in S : x >= y

\* str.strip(): t without its leading and trailing whitespace.
Strip(t) ==
    LET keep == {i \in 1..Len(t) : ~IsSpace(t[i])}
    IN  IF keep = {} THEN <<>> ELSE SubSeq(t, Min(keep), Max(keep))

\* Every way the pattern of line 175 can match t: <<d, e, s>> are the
\* positions of "Device: ", "\nEvent: " and "\nSpeed:"; with re.DOTALL the
\* two groups may hold any characters, newlines included.
AllMatches(t) ==
    {m \in Occurrences(t, DeviceLit) \X Occurrences(t, EventLit)
                                     \X Occurrences(t, SpeedLit) :
        /\ m[2] >= m[1] + Len(DeviceLit)
        /\ m[3] >= m[2] + Len(EventLit)}

\* The greedy reading of the two groups: the longest captures.
GreedyMatch(t) ==
    LET ms == AllMatches(t)
        d  == Min({m[1] : m \in ms})
        e  == Max({m[2] : m \in {x \in ms : x[1] = d}})
        s  == Max({m[3] : m \in {x \in ms : x[1] = d /\ x[2] = e}})
    IN  <<d, e, s>>

\* re.search with two lazy groups (.*?): the leftmost start, then the
\* shortest first group, then the shortest second group.
ReSearch(t) ==
    LET ms == AllMatches(t)
        d  == Min({m[1] : m \in ms})
        e  == Min({m[2] : m \in {x \in ms : x[1] = d}})
        s  == Min({m[3] : m \in {x \in ms : x[1] = d /\ x[2] = e}})
    IN  <<d, e, s>>

\* re.search(r'Time: (.*?)\n', text): without DOTALL the group holds no
\* newline, so the match is the first "Time: " that a newline follows.
TimeSearch(t) ==
    LET starts == {i \in Occurrences(t, TimeLit) :
                     \E j \in (i + Len(TimeLit))..Len(t) : t[j] = "\n"}
        i0     == Min(starts)
        nl     == Min({j \in (i0 + Len(TimeLit))..Len(t) : t[j] = "\n"})
    IN  IF starts = {} THEN <<>>
        ELSE <<SubSeq(t, i0 + Len(TimeLit), nl - 1)>>

NA == <<"N", "/", "A">>
NoMatch == [matched |-> FALSE]

\* A faulty extractor: a body without the block gives a record with empty
\* fields instead of None.
ExtractNeverNone(text) ==
    IF AllMatches(text) = {}
    THEN [matched |-> TRUE, vehicle_name |-> <<>>, dtc_text |-> <<>>,
          timestamp |-> NA, gps_coordinates |-> NA, location_address |-> NA,
          raw_email |-> text]
    ELSE LET m == ReSearch(text)
         IN  [matched          |-> TRUE,
              vehicle_name     |-> Strip(SubSeq(text, m[1] + Len(DeviceLit), m[2] - 1)),
              dtc_text         |-> Strip(SubSeq(text, m[2] + Len(EventLit), m[3] - 1)),
              timestamp        |-> NA,
              gps_coordinates  |-> NA,
              location_address |-> NA,
              raw_email        |-> text]

\* extract_dtc_info(text): the record, or None.
extract_dtc_info(text) ==
    IF AllMatches(text) = {} THEN NoMatch
    ELSE LET m  == ReSearch(text)
             tm == TimeSearch(text)
         IN  [matched          |-> TRUE,
              vehicle_name     |-> Strip(SubSeq(text, m[1] + Len(DeviceLit), m[2] - 1)),
              dtc_text         |-> Strip(SubSeq(text, m[2] + Len(EventLit), m[3] - 1)),
              timestamp        |-> IF tm = <<>> THEN NA ELSE Strip(tm[1]),
              gps_coordinates  |-> NA,
              location_address |-> NA,
              raw_email        |-> text]


(***************************************************************************)
(* The store: dtc_logs.db.  db.exists: the table dtc_logs exists;          *)
(* db.columns: its columns; db.rows: its rows in rowid order, each a       *)
(* function from the table's columns to values.                            *)
(***************************************************************************)
\* SQL NULL: a value no text equals (a text is a sequence of characters).
NULL == <<"NULL">>

\* required_columns of init_db; CREATE TABLE creates them after id.
RequiredColumns ==
    {"vehicle_name", "dtc_text", "ai_interpretation", "gps_coordinates",
     "location_address", "timestamp", "email_timestamp", "raw_email"}
AllColumns == {"id"} \cup RequiredColumns

\* The columns whose declared type carries a non-constant default
\* ('timestamp': 'DATETIME DEFAULT CURRENT_TIMESTAMP').
NonConstantDefault == {"timestamp"}

\* ALTER TABLE dtc_logs ADD COLUMN col raises sqlite3.OperationalError:
\* SQLite refuses to add a column with a non-constant default to a table
\* that holds rows ("Cannot add a column with non-constant default").
AlterFails(d, col) == col \in NonConstantDefault /\ d.rows # <<>>

\* The row r after ADD COLUMN of the columns in cols: each new column holds
\* NULL (a new timestamp column is only ever added to an empty table).
Widen(r, cols) ==
    [c \in (DOMAIN r) \cup cols |-> IF c \in DOMAIN r THEN r[c] ELSE NULL]

\* A faulty migration: the table is dropped and created again.
InitDbRecreate(d) ==
    [db     |-> [exists |-> TRUE, columns |-> AllColumns, rows |-> <<>>],
     added  |-> AllColumns \ (IF d.exists THEN d.columns ELSE {}),
     errors |-> {}]

\* init_db(): the store after the call, the columns it added and the
\* columns whose addition it reported as failed (st.error).
init_db(d) ==
    LET existing_columns == IF d.exists THEN d.columns ELSE {}
    IN  IF existing_columns = {}
        THEN [db     |-> [exists |-> TRUE, columns |-> AllColumns, rows |-> <<>>],
              added  |-> AllColumns,
              errors |-> {}]
        ELSE LET missing == RequiredColumns \ existing_columns
                 failed  == {c \in missing : AlterFails(d, c)}
                 added   == missing \ failed
             IN  [db     |-> [exists  |-> TRUE,
                              columns |-> d.columns \cup added,
                              rows    |-> [n \in 1..Len(d.rows) |->
                                             Widen(d.rows[n], added)]],
                  added  |-> added,
                  errors |-> failed]

(***************************************************************************)
(* State.                                                                  *)
(***************************************************************************)
VARIABLES
    body,        \* SpecExtract: the text handed to extract_dtc_info
    extracted,   \* SpecExtract: extract_dtc_info has returned
    entry,       \* SpecExtract: what it returned
    db,          \* the store, dtc_logs.db
    schemaCalls, \* SpecSchema: the init_db calls made so far, one record each
    now,         \* the store's clock (CURRENT_TIMESTAMP), in ticks
    pc,          \* where the running script is; "idle": no script is running
    button,      \* what started the last script run: "fetch", "history", "none"
    start_date, end_date, selected_vehicle,   \* the sidebar's filters
    outcome,     \* of the last script run: "running", "done", "exception"
    fault,       \* what failed in the last script run ("none": nothing)
    status,      \* what the last script run reported on the status channel
    mailConn,    \* the run's mailbox connection: "none", "open", "closed"
    dbOpen,      \* store connections the run opened and has not closed
    msgs,        \* the messages the run's search returned
    i,           \* fetch_emails: the index in msgs of the next message
    dtc_entries, \* fetch_emails: the entries collected; then the run's batch
    origin,      \* for each entry of dtc_entries, the index of its message
    k,           \* the run block: the index in dtc_entries of the next entry
    ai_result,   \* the run block: what interpret_dtc returned for entry k
    interpFailed,\* the entries whose completion call failed
    saved,       \* for each entry saved by the run, the id of its row
    result       \* the rows the last history query returned

extractVars == <<body, extracted, entry>>
schemaVars == <<schemaCalls>>
runVars ==
    <<pc, button, start_date, end_date, selected_vehicle, outcome, fault,
      status, mailConn, dbOpen, msgs, i, dtc_entries, origin, k, ai_result,
      interpFailed, saved, result>>
vars == <<body, extracted, entry, db, schemaCalls, now, runVars>>

FreshDb == [exists |-> FALSE, columns |-> {}, rows |-> <<>>]

\* "All Vehicles", the first option of the vehicle filter.
AllVehicles == <<"A", "l", "l", " ", "V", "e", "h", "i", "c", "l", "e", "s">>

\* The variables of a script run when a script starts, and before any has.
RunReset ==
    /\ status = {}
    /\ mailConn = "none"
    /\ dbOpen = 0
    /\ msgs = <<>>
    /\ i = 0
    /\ dtc_entries = <<>>
    /\ origin = <<>>
    /\ k = 0
    /\ ai_result = NULL
    /\ interpFailed = {}
    /\ saved = <<>>
    /\ result = <<>>

\* No script has run yet.
NoScript ==
    /\ now = 0
    /\ pc = "idle"
    /\ button = "none"
    /\ start_date = 0
    /\ end_date = 0
    /\ selected_vehicle = AllVehicles
    /\ outcome = "done"
    /\ fault = "none"
    /\ RunReset

(***************************************************************************)
(* SpecExtract: extract_dtc_info applied to every body made of at most     *)
(* MaxFrags fragments.                                                     *)
(***************************************************************************)
Fragments ==
    {DeviceLit, EventLit, SpeedLit, <<"x">>, <<" ">>, <<"\n">>}

RECURSIVE BodiesOfLen(_)
BodiesOfLen(n) ==
    IF n = 0 THEN {<<>>}
    ELSE {b \o f : b \in BodiesOfLen(n - 1), f \in Fragments}

Bodies == UNION {BodiesOfLen(n) : n \in 0..MaxFrags}

InitExtract ==
    /\ body \in Bodies
    /\ extracted = FALSE
    /\ entry = NoMatch
    /\ db = FreshDb
    /\ schemaCalls = <<>>
    /\ NoScript

Extract ==
    /\ ~extracted
    /\ extracted' = TRUE
    /\ entry' = extract_dtc_info(body)
    /\ UNCHANGED <<body, db, schemaCalls, now, runVars>>

NextExtract == Extract

SpecExtract == InitExtract /\ [][NextExtract]_vars

(***************************************************************************)
(* C1.  The reference reading of a body, computed by scanning forward      *)
(* rather than by enumerating matches.                                     *)
(***************************************************************************)
\* The first position >= from at which lit occurs in t, or 0.
RECURSIVE Find(_, _, _)
Find(t, lit, from) ==
    IF from + Len(lit) - 1 > Len(t) THEN 0
    ELSE IF SubSeq(t, from, from + Len(lit) - 1) = lit THEN from
    ELSE Find(t, lit, from + 1)

RECURSIVE TrimLeft(_)
TrimLeft(t) ==
    IF t # <<>> /\ IsSpace(Head(t)) THEN TrimLeft(Tail(t)) ELSE t

RECURSIVE TrimRight(_)
TrimRight(t) ==
    IF t # <<>> /\ IsSpace(t[Len(t)])
    THEN TrimRight(SubSeq(t, 1, Len(t) - 1)) ELSE t

Trimmed(t) == TrimRight(TrimLeft(t))

\* Where the block's three markers are: the first "Device: ", the first
\* "\nEvent: " after it, the first "\nSpeed:" after that (0: not there).
DevicePos(t) == Find(t, DeviceLit, 1)
EventPos(t) ==
    IF DevicePos(t) = 0 THEN 0
    ELSE Find(t, EventLit, DevicePos(t) + Len(DeviceLit))
SpeedPos(t) ==
    IF EventPos(t) = 0 THEN 0
    ELSE Find(t, SpeedLit, EventPos(t) + Len(EventLit))

\* t contains a well-formed Device:/Event:/Speed: block.
WellFormed(t) == SpeedPos(t) # 0

\* C1: for every body that contains a well-formed Device:/Event:/Speed:
\* block, extract_dtc_info returns a record whose vehicle_name is exactly
\* the trimmed text between "Device: " and the following "\nEvent: " and
\* whose dtc_text is exactly the trimmed text between that "Event: " and the
\* first "\nSpeed:" after it, whatever whitespace or newlines the texts
\* carry.
C1_ExtractExact ==
    (extracted /\ WellFormed(body)) =>
        /\ entry.matched
        /\ entry.vehicle_name =
             Trimmed(SubSeq(body, DevicePos(body) + Len(DeviceLit),
                            EventPos(body) - 1))
        /\ entry.dtc_text =
             Trimmed(SubSeq(body, EventPos(body) + Len(EventLit),
                            SpeedPos(body) - 1))
        /\ entry.raw_email = body

\* C1 witness: a well-formed body whose Event text spans two lines has been
\* extracted, and its dtc_text holds the newline.
C1_Witness ==
    /\ extracted
    /\ WellFormed(body)
    /\ entry.matched
    /\ \E n \in 1..Len(entry.dtc_text) : entry.dtc_text[n] = "\n"
    /\ Len(body) > Len(DeviceLit) + Len(EventLit) + Len(SpeedLit) + 1

\* The body of scenario A, with the names cut to one character:
\* "Device: x\nEvent: x\nSpeed:".
ScenarioA == DeviceLit \o <<"x">> \o EventLit \o <<"x">> \o SpeedLit

(***************************************************************************)
(* SpecSchema: init_db called, up to MaxInitCalls times in a row, on every *)
(* store: no table, or a table with id and any of the required columns,    *)
(* holding up to MaxLegacyRows rows.                                       *)
(***************************************************************************)
\* What row n of a store found at startup holds in column c.
LegacyValue(c, n) ==
    IF c \in {"id", "timestamp"} THEN n
    ELSE IF c = "vehicle_name" THEN <<"x">>
    ELSE <<"o", "l", "d">>

LegacyStore(cols, n) ==
    [exists  |-> TRUE,
     columns |-> cols,
     rows    |-> [m \in 1..n |-> [c \in cols |-> LegacyValue(c, m)]]]

SchemaStores ==
    {FreshDb} \cup
    {LegacyStore({"id"} \cup cs, n) :
        cs \in SUBSET RequiredColumns, n \in 0..MaxLegacyRows}

InitSchema ==
    /\ db \in SchemaStores
    /\ schemaCalls = <<>>
    /\ body = <<>>
    /\ extracted = FALSE
    /\ entry = NoMatch
    /\ NoScript

\* One call of init_db(); what it did is recorded in schemaCalls.
InitDbCall ==
    /\ Len(schemaCalls) < MaxInitCalls
    /\ LET r == init_db(db)
       IN  /\ db' = r.db
           /\ schemaCalls' = Append(schemaCalls,
                 [before |-> db, after |-> r.db,
                  added |-> r.added, errors |-> r.errors])
    /\ UNCHANGED <<extractVars, now, runVars>>

NextSchema == InitDbCall

SpecSchema == InitSchema /\ [][NextSchema]_vars

\* Every row of store b is in store a at the same place, with the same
\* value in every column it had.
RowsKept(b, a) ==
    /\ Len(a.rows) = Len(b.rows)
    /\ \A n \in 1..Len(b.rows) :
         \A c \in DOMAIN b.rows[n] :
            c \in DOMAIN a.rows[n] /\ a.rows[n][c] = b.rows[n][c]

\* C7: init_db is idempotent.  Whatever the store (no table, a table with
\* all the required columns, a table with some of them missing), a call
\* leaves every existing row unchanged and leaves the table in place with
\* every required column except those whose addition failed, each of which
\* it reported without giving up on the others; a call that follows another
\* adds no column and leaves the store exactly as it found it.
C7_InitDbIdempotent ==
    \A n \in 1..Len(schemaCalls) :
        LET call == schemaCalls[n]
        IN  /\ call.after.exists
            /\ RowsKept(call.before, call.after)
            /\ call.after.columns =
                 call.before.columns \cup {"id"} \cup (RequiredColumns \ call.errors)
            /\ call.errors \cap call.after.columns = {}
            /\ call.added = call.after.columns \ call.before.columns
            /\ n > 1 => /\ call.added = {}
                        /\ call.after = call.before
                        /\ call.before = schemaCalls[n - 1].after
            /\ n = Len(schemaCalls) => db = call.after

\* C7 witness: init_db has run twice on a store that held rows and lacked
\* several columns; the first call added one and reported another as
\* failed.
C7_Witness ==
    /\ Len(schemaCalls) = 2
    /\ schemaCalls[1].before.rows # <<>>
    /\ schemaCalls[1].added # {}
    /\ schemaCalls[1].errors # {}

(***************************************************************************)
(* The mailbox.  A message is [multipart, parts, date]: parts are its      *)
(* parts in walk order (a message that is not multipart has exactly one,   *)
(* itself), each [ctype, text, decodable]; date is its Date header, in     *)
(* hours, or NoDate.                                                       *)
(***************************************************************************)
NoDate == -1

Digit(n) == <<"0", "1", "2", "3", "4", "5", "6", "7", "8", "9">>[n + 1]

\* email_date.strftime("%Y-%m-%d %I:%M:%S %p"), to the hour: the day, the
\* hour on the 12-hour clock, AM or PM.
Strftime(date) ==
    LET h   == date % 24
        h12 == IF h % 12 = 0 THEN 12 ELSE h % 12
    IN  <<"d", Digit(date \div 24), " ", Digit(h12 \div 10), Digit(h12 % 10),
          " ", IF h < 12 THEN "A" ELSE "P", "M">>

BodyOf(name, event) == DeviceLit \o name \o EventLit \o event \o SpeedLit

PlainPart(text) == [ctype |-> "text/plain", text |-> text, decodable |-> TRUE]
HtmlPart == [ctype |-> "text/html", text |-> <<"h">>, decodable |-> TRUE]

GoodX == [multipart |-> FALSE, date |-> 13,
          parts |-> <<PlainPart(BodyOf(<<"x">>, <<"p">>))>>]
GoodY == [multipart |-> TRUE, date |-> 24,
          parts |-> <<HtmlPart, PlainPart(BodyOf(<<"y">>, <<"p", "\n", "q">>))>>]
EmptyFields == [multipart |-> FALSE, date |-> 13,
                parts |-> <<PlainPart(BodyOf(<<" ">>, <<>>))>>]
NoBlock == [multipart |-> FALSE, date |-> 13,
            parts |-> <<PlainPart(DeviceLit \o <<"x">> \o SpeedLit)>>]
NoTextPart == [multipart |-> TRUE, date |-> 13, parts |-> <<HtmlPart>>]
NoDateHeader == [multipart |-> FALSE, date |-> NoDate,
                 parts |-> <<PlainPart(BodyOf(<<"x">>, <<"p">>))>>]
Undecodable == [multipart |-> FALSE, date |-> 13,
                parts |-> <<[ctype |-> "text/plain", text |-> <<>>,
                             decodable |-> FALSE]>>]

\* The messages a search can return.
Inbox == {GoodX, GoodY, EmptyFields, NoBlock, NoTextPart, NoDateHeader,
          Undecodable}

RECURSIVE SeqsOfLen(_, _)
SeqsOfLen(S, n) ==
    IF n = 0 THEN {<<>>}
    ELSE {Append(q, x) : q \in SeqsOfLen(S, n - 1), x \in S}

SeqsUpTo(S, n) == UNION {SeqsOfLen(S, m) : m \in 0..n}

\* Lines 142-149: the part whose payload becomes email_body (0: none, and
\* email_body stays "").  A multipart message gives its first text/plain
\* part; any other message gives its own payload, whatever its type.
BodyPart(m) ==
    IF m.multipart
    THEN LET plain == {n \in 1..Len(m.parts) : m.parts[n].ctype = "text/plain"}
         IN  IF plain = {} THEN 0 ELSE Min(plain)
    ELSE 1

\* part.get_payload(decode=True).decode() raises.
DecodeFails(m) == BodyPart(m) # 0 /\ ~m.parts[BodyPart(m)].decodable

EmailBody(m) == IF BodyPart(m) = 0 THEN <<>> ELSE m.parts[BodyPart(m)].text

\* parsedate_to_datetime(msg.get('date')) raises when there is no Date header.
DateFails(m) == m.date = NoDate

\* `if entry:` (lines 155 and 254): None is false, a record is true.
Truthy(e) == e.matched

\* Lines 154-158: the entry fetch_emails appends for message m.
EntryOf(m) ==
    LET e == extract_dtc_info(EmailBody(m))
    IN  [f \in (DOMAIN e) \cup {"email_timestamp"} |->
            CASE f = "raw_email" -> EmailBody(m)
              [] f = "email_timestamp" -> Strftime(m.date)
              [] OTHER -> e[f]]

(***************************************************************************)
(* interpret_dtc.                                                          *)
(***************************************************************************)
Fallback ==
    <<"E", "r", "r", "o", "r", " ", "i", "n", "t", "e", "r", "p", "r", "e",
      "t", "i", "n", "g", " ", "D", "T", "C", " ", "c", "o", "d", "e">>

\* What the completion service answers when it answers.
Completions == {<<"o", "k">>}

\* A faulty handler: the failure leaves the interpretation empty.
InterpretEmptyOnFailure(ok, content) ==
    IF ok THEN [raised |-> FALSE, value |-> content,
                status |-> {"interpreting", "interp_complete"}]
    ELSE [raised |-> FALSE, value |-> <<>>,
          status |-> {"interpreting", "interp_error"}]

\* interpret_dtc(dtc_text, status_placeholder) when the completion call
\* succeeds with content (ok) or raises: whether it raises, what it returns
\* and what it reports.
interpret_dtc(ok, content) ==
    IF ok THEN [raised |-> FALSE, value |-> content,
                status |-> {"interpreting", "interp_complete"}]
    ELSE [raised |-> FALSE, value |-> Fallback,
          status |-> {"interpreting", "interp_error"}]

(***************************************************************************)
(* save_to_db and the history query.                                       *)
(***************************************************************************)
\* The columns the INSERT of save_to_db names.
InsertColumns ==
    {"vehicle_name", "dtc_text", "ai_interpretation", "gps_coordinates",
     "location_address", "raw_email", "email_timestamp"}

\* The INSERT raises whatever the environment: a column it names is missing.
InsertRaises(d) == ~d.exists \/ ~(InsertColumns \subseteq d.columns)

\* The row the INSERT writes: the values given, the next rowid as id, and
\* CURRENT_TIMESTAMP in timestamp.
NewRow(d, e, ai, t) ==
    [c \in d.columns |->
        CASE c = "id" -> Len(d.rows) + 1
          [] c = "timestamp" -> t
          [] c = "ai_interpretation" -> ai
          [] c \in InsertColumns -> e[c]
          [] OTHER -> NULL]

\* A faulty INSERT: INSERT OR REPLACE on a constant key, so that the new
\* row takes the place of the last one.
InsertReplacing(d, e, ai, t) ==
    IF d.rows = <<>> THEN [d EXCEPT !.rows = <<NewRow(d, e, ai, t)>>]
    ELSE [d EXCEPT !.rows[Len(d.rows)] =
             [NewRow(d, e, ai, t) EXCEPT !["id"] = Len(d.rows)]]

\* The store after the INSERT and commit of save_to_db.
InsertRow(d, e, ai, t) ==
    [d EXCEPT !.rows = Append(d.rows, NewRow(d, e, ai, t))]

\* DATE(timestamp): the day a timestamp falls on.
DateOf(t) == t \div TicksPerDay

\* A faulty filter: the end date is left out of the range.
InRangeExclusive(r, sd, ed, veh) ==
    /\ DateOf(r["timestamp"]) >= sd
    /\ DateOf(r["timestamp"]) < ed
    /\ veh # AllVehicles => r["vehicle_name"] = veh

\* The WHERE clause of the history query (lines 285-299).
InRange(r, sd, ed, veh) ==
    /\ DateOf(r["timestamp"]) >= sd
    /\ DateOf(r["timestamp"]) <= ed
    /\ veh # AllVehicles => r["vehicle_name"] = veh

\* ORDER BY timestamp DESC.
SortedDesc(q) ==
    \A m, n \in 1..Len(q) : m < n => q[m]["timestamp"] >= q[n]["timestamp"]

\* The results the query may give: the rows the WHERE clause keeps, in any
\* order that ORDER BY timestamp DESC allows.
QueryResults(d, sd, ed, veh) ==
    LET keep == {n \in 1..Len(d.rows) : InRange(d.rows[n], sd, ed, veh)}
        perms == {f \in [1..Cardinality(keep) -> keep] :
                     \A a, b \in 1..Cardinality(keep) : a # b => f[a] # f[b]}
    IN  {q \in {[n \in 1..Cardinality(keep) |-> d.rows[f[n]]] : f \in perms} :
            SortedDesc(q)}

\* The query raises: the table has no timestamp column.
QueryRaises(d) == ~d.exists \/ "timestamp" \notin d.columns

\* get_unique_vehicles(): SELECT DISTINCT vehicle_name raises, or the names.
VehiclesRaises(d) == ~d.exists \/ "vehicle_name" \notin d.columns
get_unique_vehicles(d) == {d.rows[n]["vehicle_name"] : n \in 1..Len(d.rows)}

(***************************************************************************)
(* Spec: the script.  Every interaction runs app.py from the top: the      *)
(* sidebar (get_unique_vehicles), init_db, then the block of the button    *)
(* that was pressed.                                                       *)
(***************************************************************************)
\* The stores the program may find at startup: none; the table as init_db
\* creates it; the table of the script's earlier version, without
\* email_timestamp and raw_email, holding a row; a table without timestamp,
\* holding a row.
StartStores ==
    {FreshDb,
     LegacyStore(AllColumns, 0),
     LegacyStore(AllColumns \ {"email_timestamp", "raw_email"}, 1),
     LegacyStore(AllColumns \ {"timestamp"}, 1)}

Init ==
    /\ db \in StartStores
    /\ NoScript
    /\ body = <<>>
    /\ extracted = FALSE
    /\ entry = NoMatch
    /\ schemaCalls = <<>>

otherVars == <<body, extracted, entry, schemaCalls>>

Days == 0..(MaxClock \div TicksPerDay)

\* Time passes (between script runs, and between the inserts of a run).
Tick ==
    /\ pc \in {"idle", "save"}
    /\ now < MaxClock
    /\ now' = now + 1
    /\ UNCHANGED <<db, otherVars, runVars>>

\* The script ends: normally, or with an exception that nothing caught.
Ends(how, what) ==
    /\ pc' = "idle"
    /\ outcome' = how
    /\ fault' = what

\* Lines 248-278 once fetch_emails has returned [] : the "No DTC codes
\* found" warning; the script ends.
RunsEmpty(what, said) ==
    /\ Ends("done", what)
    /\ status' = status \cup said \cup {"no_dtc"}
    /\ dtc_entries' = <<>>
    /\ origin' = <<>>

\* An interaction starts the script: lines 1-56 (the sidebar, with
\* get_unique_vehicles) and line 240 (init_db).  The filters are drawn for
\* the history view only: the fetch of the model answers any date window
\* with any messages.
ScriptStart ==
    /\ pc = "idle"
    /\ \E b \in {"fetch", "history", "none"} :
        /\ button' = b
        /\ mailConn' = "none"
        /\ msgs' = <<>>
        /\ i' = 0
        /\ dtc_entries' = <<>>
        /\ origin' = <<>>
        /\ k' = 0
        /\ ai_result' = NULL
        /\ interpFailed' = {}
        /\ saved' = <<>>
        /\ result' = <<>>
        /\ IF VehiclesRaises(db)
           THEN /\ Ends("exception", "vehicles")
                /\ dbOpen' = 1
                /\ status' = {}
                /\ UNCHANGED <<db, start_date, end_date, selected_vehicle>>
           ELSE /\ dbOpen' = 0
                /\ db' = init_db(db).db
                /\ status' = IF init_db(db).errors = {} THEN {}
                             ELSE {"column_error"}
                /\ fault' = "none"
                /\ IF b = "history"
                   THEN /\ start_date' \in Days
                        /\ end_date' \in Days
                        /\ selected_vehicle' \in
                             {AllVehicles} \cup get_unique_vehicles(db)
                   ELSE /\ start_date' = 0
                        /\ end_date' = 0
                        /\ selected_vehicle' = AllVehicles
                /\ pc' = CASE b = "fetch" -> "connect"
                           [] b = "history" -> "history"
                           [] OTHER -> "idle"
                /\ outcome' = IF b = "none" THEN "done" ELSE "running"
    /\ UNCHANGED <<now, otherVars>>

\* Lines 105-117: IMAP4_SSL, login, select.  Any of the three may raise,
\* and nothing catches it.
MailboxOpen ==
    /\ pc = "connect"
    /\ \E stage \in {"connect", "login", "select", "ok"} :
        /\ mailConn' = IF stage = "connect" THEN "none" ELSE "open"
        /\ IF stage = "ok"
           THEN /\ pc' = "search"
                /\ status' = status \cup {"connecting", "searching"}
                /\ UNCHANGED <<outcome, fault>>
           ELSE /\ Ends("exception", stage)
                /\ status' = status \cup {"connecting"}
    /\ UNCHANGED <<db, now, otherVars, button, start_date, end_date,
                   selected_vehicle, dbOpen, msgs, i, dtc_entries, origin, k,
                   ai_result, interpFailed, saved, result>>

\* Lines 122-132: mail.search raises (caught at line 169), or returns the
\* ids of the messages ms.
Search ==
    /\ pc = "search"
    /\ \/ /\ RunsEmpty("search", {"search_error"})
          /\ UNCHANGED <<msgs, i>>
       \/ \E ms \in SeqsUpTo(Inbox, MaxMsgs) :
            /\ Len(db.rows) + Len(ms) <= MaxRows
            /\ msgs' = ms
            /\ IF ms = <<>>
               THEN /\ RunsEmpty("none", {"no_emails"})
                    /\ UNCHANGED i
               ELSE /\ i' = 1
                    /\ pc' = "fetch"
                    /\ status' = status \cup {"processing"}
                    /\ UNCHANGED <<outcome, fault, dtc_entries, origin>>
    /\ UNCHANGED <<db, now, otherVars, button, start_date, end_date,
                   selected_vehicle, mailConn, dbOpen, k, ai_result,
                   interpFailed, saved, result>>

\* Lines 134-159, one turn of the loop: message i is fetched, decoded, its
\* Date parsed and its body extracted.  Whatever raises is caught at line
\* 169, and fetch_emails returns [].
FetchMessage ==
    /\ pc = "fetch"
    /\ i <= Len(msgs)
    /\ \E fetched \in BOOLEAN :
        LET m == msgs[i]
        IN  IF ~fetched THEN
                /\ RunsEmpty("fetch", {"search_error"})
                /\ UNCHANGED i
            ELSE IF DecodeFails(m) THEN
                /\ RunsEmpty("decode", {"search_error"})
                /\ UNCHANGED i
            ELSE IF DateFails(m) THEN
                /\ RunsEmpty("date", {"search_error"})
                /\ UNCHANGED i
            ELSE
                /\ i' = i + 1
                /\ IF Truthy(extract_dtc_info(EmailBody(m)))
                   THEN /\ dtc_entries' = Append(dtc_entries, EntryOf(m))
                        /\ origin' = Append(origin, i)
                   ELSE UNCHANGED <<dtc_entries, origin>>
                /\ UNCHANGED <<pc, outcome, fault, status>>
    /\ UNCHANGED <<db, now, otherVars, button, start_date, end_date,
                   selected_vehicle, mailConn, dbOpen, msgs, k, ai_result,
                   interpFailed, saved, result>>

\* Lines 161-167 and 250-252: the loop is over; logout; the entries are
\* returned to the run block.
FetchDone ==
    /\ pc = "fetch"
    /\ i > Len(msgs)
    /\ mailConn' = "closed"
    /\ IF dtc_entries = <<>>
       THEN /\ RunsEmpty("none", {"complete"})
            /\ UNCHANGED k
       ELSE /\ pc' = "interpret"
            /\ k' = 1
            /\ status' = status \cup {"complete"}
            /\ UNCHANGED <<outcome, fault, dtc_entries, origin>>
    /\ UNCHANGED <<db, now, otherVars, button, start_date, end_date,
                   selected_vehicle, dbOpen, msgs, i, ai_result,
                   interpFailed, saved, result>>

\* Line 255: interpret_dtc for entry k; the completion call answers or
\* raises.
Interpret ==
    /\ pc = "interpret"
    /\ \E ok \in BOOLEAN, content \in Completions :
        LET r == interpret_dtc(ok, content)
        IN  /\ status' = status \cup r.status
            /\ interpFailed' = IF ok THEN interpFailed ELSE interpFailed \cup {k}
            /\ IF r.raised
               THEN /\ Ends("exception", "interpret")
                    /\ UNCHANGED ai_result
               ELSE /\ pc' = "save"
                    /\ ai_result' = r.value
                    /\ UNCHANGED <<outcome, fault>>
    /\ UNCHANGED <<db, now, otherVars, button, start_date, end_date,
                   selected_vehicle, mailConn, dbOpen, msgs, i, dtc_entries,
                   origin, k, saved, result>>

\* Lines 256-276: save_to_db for entry k; the INSERT or the commit raises
\* (nothing catches it, and conn.close is not reached), or the row is
\* written and the loop goes on.
Save ==
    /\ pc = "save"
    /\ \E written \in BOOLEAN :
        IF ~written \/ InsertRaises(db)
        THEN /\ Ends("exception", "save")
             /\ dbOpen' = dbOpen + 1
             /\ UNCHANGED <<db, saved, k, status>>
        ELSE /\ db' = InsertRow(db, dtc_entries[k], ai_result, now)
             /\ saved' = Append(saved, Len(db.rows) + 1)
             /\ k' = k + 1
             /\ UNCHANGED dbOpen
             /\ IF k = Len(dtc_entries)
                THEN /\ Ends("done", "none")
                     /\ status' = status \cup {"all_stored"}
                ELSE /\ pc' = "interpret"
                     /\ UNCHANGED <<outcome, fault, status>>
    /\ UNCHANGED <<now, otherVars, button, start_date, end_date,
                   selected_vehicle, mailConn, msgs, i, dtc_entries, origin,
                   ai_result, interpFailed, result>>

\* Lines 281-309: the history query.
ShowHistory ==
    /\ pc = "history"
    /\ IF QueryRaises(db)
       THEN /\ Ends("exception", "query")
            /\ dbOpen' = 1
            /\ UNCHANGED result
       ELSE /\ Ends("done", "none")
            /\ result' \in QueryResults(db, start_date, end_date, selected_vehicle)
            /\ UNCHANGED dbOpen
    /\ UNCHANGED <<db, now, otherVars, button, start_date, end_date,
                   selected_vehicle, status, mailConn, msgs, i, dtc_entries,
                   origin, k, ai_result, interpFailed, saved>>

Next ==
    \/ Tick
    \/ ScriptStart
    \/ MailboxOpen
    \/ Search
    \/ FetchMessage
    \/ FetchDone
    \/ Interpret
    \/ Save
    \/ ShowHistory

Spec == Init /\ [][Next]_vars

(***************************************************************************)
(* The claims about the script.                                            *)
(***************************************************************************)
\* A fetch-and-analyze run has ended.
RunEnded == pc = "idle" /\ button = "fetch"

\* Message n of the run's batch carries the block in the body the code
\* reads from it.
HasBlock(n) == ~DecodeFails(msgs[n]) /\ WellFormed(EmailBody(msgs[n]))

\* The messages of the batch that interpret_dtc was called for, and those a
\* row was inserted for.
Interpreted ==
    {origin[j] : j \in {x \in 1..Len(origin) :
                          x < k \/ (x = k /\ pc = "save") \/ (x = k /\ fault = "save")}}
Stored == {origin[j] : j \in (1..Len(saved)) \cap (1..Len(origin))}

\* C2: a fetched message whose body lacks the Device:/Event:/Speed: block
\* (a multipart message without a text/plain part included) gives no entry:
\* no interpretation call and no insert is ever made for it, and every row
\* the run writes holds the body of a message that has the block.
C2_NoBlockNoWrite ==
    /\ \A n \in 1..Len(msgs) :
         ~HasBlock(n) =>
            /\ n \notin Interpreted
            /\ n \notin Stored
            /\ \A j \in 1..Len(origin) : origin[j] # n
    /\ Len(saved) <= Len(origin)
    /\ \A j \in 1..Len(saved) :
         /\ saved[j] \in 1..Len(db.rows)
         /\ db.rows[saved[j]]["raw_email"] = EmailBody(msgs[origin[j]])
         /\ WellFormed(db.rows[saved[j]]["raw_email"])

\* C2 witness: a run over a multipart message without a text/plain part and
\* a message with the block has ended, and wrote exactly one row.
C2_Witness ==
    /\ RunEnded
    /\ outcome = "done"
    /\ msgs = <<NoTextPart, GoodX>>
    /\ Len(saved) = 1
    /\ Stored = {2}

\* C3: every row of the store has a non-empty vehicle_name and a non-empty
\* dtc_text.
C3_FieldsNonEmpty ==
    \A n \in 1..Len(db.rows) :
        /\ db.rows[n]["vehicle_name"] # <<>>
        /\ db.rows[n]["dtc_text"] # <<>>

\* C4: when the completion call fails for an entry, interpret_dtc does not
\* raise, reports the failure and returns exactly "Error interpreting DTC
\* code"; the run goes on to insert the entry (only the insert's own failure
\* keeps the row out), with that string as ai_interpretation, and then to
\* the entries that remain.
C4_InterpretFallback ==
    /\ fault # "interpret"
    /\ \A j \in interpFailed :
         /\ "interp_error" \in status
         /\ \/ pc = "save" /\ k = j /\ ai_result = Fallback
            \/ pc = "idle" /\ fault = "save" /\ k = j /\ ai_result = Fallback
            \/ /\ j <= Len(saved)
               /\ db.rows[saved[j]]["ai_interpretation"] = Fallback
               /\ db.rows[saved[j]]["dtc_text"] = dtc_entries[j]["dtc_text"]
               /\ \/ pc \in {"interpret", "save"} /\ k > j
                  \/ pc = "idle" /\ fault = "save" /\ k > j
                  \/ pc = "idle" /\ outcome = "done"
                       /\ Len(saved) = Len(dtc_entries)

\* C4 witness: the completion call failed for the first of two entries, and
\* the run has ended with both rows written.
C4_Witness ==
    /\ RunEnded
    /\ outcome = "done"
    /\ 1 \in interpFailed
    /\ Len(saved) = 2
    /\ db.rows[saved[1]]["ai_interpretation"] = Fallback

\* C5: whenever a run met a transport failure (at connect, login, select or
\* search), the failure was reported, no exception escaped the run and the
\* run stored nothing.
C5_TransportContained ==
    (RunEnded /\ fault \in {"connect", "login", "select", "search"}) =>
        /\ outcome = "done"
        /\ "search_error" \in status
        /\ saved = <<>>

\* C6: when a run ends on any of the paths named (messages processed, no
\* message ids, an exception during search or fetch, a failed insert), the
\* mailbox connection and every store connection it opened are closed.
C6_ConnectionsClosed ==
    (RunEnded /\ fault \in {"none", "search", "fetch", "decode", "date", "save"}) =>
        /\ mailConn # "open"
        /\ dbOpen = 0

\* C8: the history query returns exactly the rows whose timestamp falls on
\* a day from start_date to end_date, both included, and, when a vehicle is
\* selected, whose vehicle_name is that vehicle's; each once, the newest
\* first.  So a row queried by its own day and vehicle is returned as it is.
C8_HistoryQuery ==
    (pc = "idle" /\ button = "history" /\ outcome = "done") =>
        /\ \A n \in 1..Len(db.rows) :
             LET r == db.rows[n]
                 wanted ==
                    /\ start_date * TicksPerDay <= r["timestamp"]
                    /\ r["timestamp"] < (end_date + 1) * TicksPerDay
                    /\ selected_vehicle # AllVehicles =>
                          r["vehicle_name"] = selected_vehicle
             IN  wanted <=> (\E m \in 1..Len(result) : result[m] = r)
        /\ \A m \in 1..Len(result) : \E n \in 1..Len(db.rows) : result[m] = db.rows[n]
        /\ \A a, b \in 1..Len(result) :
             /\ a # b => result[a]["id"] # result[b]["id"]
             /\ a < b => result[a]["timestamp"] >= result[b]["timestamp"]

\* C8 witness: a query for one vehicle has returned a row stamped on
\* end_date and left another row out.
C8_Witness ==
    /\ pc = "idle" /\ button = "history" /\ outcome = "done"
    /\ selected_vehicle # AllVehicles
    /\ Len(result) = 1
    /\ Len(db.rows) = 2
    /\ result[1]["timestamp"] \div TicksPerDay = end_date
    /\ result[1]["timestamp"] % TicksPerDay # 0
    /\ result[1]["vehicle_name"] = selected_vehicle

\* C9: in a run that completed over several messages, every message that
\* carries the block, decodes and has a Date header was persisted, whatever
\* the other messages of the batch are like.
C9_MessagesIndependent ==
    (RunEnded /\ outcome = "done" /\ fault \in {"none", "decode", "date"}
        /\ Len(msgs) > 1) =>
        \A n \in 1..Len(msgs) :
            (HasBlock(n) /\ ~DateFails(msgs[n])) => n \in Stored

\* Every row of store b is still in store a, at its place, with the value
\* it had in each of its columns (its id among them).
RowsStay(b, a) ==
    /\ Len(a.rows) >= Len(b.rows)
    /\ \A n \in 1..Len(b.rows) :
         \A c \in DOMAIN b.rows[n] :
            c \in DOMAIN a.rows[n] /\ a.rows[n][c] = b.rows[n][c]

\* C10: no step updates or deletes a row; a run that the k-th insert aborts
\* has written the k-1 rows before it, and those stay; the aborting step
\* writes nothing and no row is written once the script has ended.
C10_RowsNeverChange ==
    [][/\ RowsStay(db, db')
       /\ pc = "idle" => Len(db'.rows) = Len(db.rows)
       /\ (pc = "save" /\ pc' = "idle" /\ fault' = "save") =>
            /\ db' = db
            /\ Len(saved') = k' - 1
            /\ \A j \in 1..(k' - 1) :
                 db'.rows[saved'[j]]["raw_email"] = dtc_entries'[j]["raw_email"]]_vars

\* C10 witness: the second insert of a run failed, and the row of the first
\* is in the store.
C10_Witness ==
    /\ RunEnded
    /\ fault = "save"
    /\ k = 2
    /\ Len(saved) = 1
    /\ Len(dtc_entries) = 2
    /\ db.rows[saved[1]]["raw_email"] = dtc_entries[1]["raw_email"]

=============================================================================
